---- MODULE Spec2Model ----
(***************************************************************************)
(* A model of scripts/validate-config.py: the ConfigValidator class, its   *)
(* eight section checks, validate_config, validate_file and the CLI main.  *)
(*                                                                         *)
(* Python values are tagged records [t, v].  A string is the sequence of   *)
(* its characters, so that regular expressions, substring tests and        *)
(* str.replace are computed on the text itself.  A scalar that is not a    *)
(* string carries in v the text str() gives for it.  A dict is the         *)
(* sequence of its <<key, value>> items in insertion order.                *)
(*                                                                         *)
(* A message is the tuple of the pieces of its f-string: the literal text  *)
(* as TLA+ strings, the interpolated values as character sequences.        *)
(***************************************************************************)
EXTENDS Integers, Sequences, FiniteSets, TLC

VARIABLES config, errors, warnings, op, repeated, result, file, strict, exit,
          loadFailures, pending

vars == <<config, errors, warnings, op, repeated, result, file, strict, exit,
          loadFailures, pending>>

(***************************************************************************)
(* Bounds of the model.                                                    *)
(***************************************************************************)
MaxAccounts == 3

MaxLoadFailures == 1

(***************************************************************************)
(* Python values.                                                          *)
(***************************************************************************)
PyStr(chars) == [t |-> "str", v |-> chars]

PyInt(digits) == [t |-> "int", v |-> digits]

PyNone == [t |-> "none", v |-> <<"N", "o", "n", "e">>]

PyTrue == [t |-> "bool", v |-> <<"T", "r", "u", "e">>]

PyList(items) == [t |-> "list", v |-> items]

PyDict(items) == [t |-> "dict", v |-> items]

IsStr(x) == x.t = "str"

IsList(x) == x.t = "list"

IsDict(x) == x.t = "dict"

IsBool(x) == x.t = "bool"

\* hash(x) raises TypeError for a list and for a dict
Hashable(x) == x.t \notin {"list", "dict"}

\* bool(x): None, the empty string, the empty list and the empty dict, and 0
Truthy(x) ==
    CASE x.t = "none" -> FALSE
      [] x.t = "int" -> x.v # <<"0">>
      [] x.t = "bool" -> x = PyTrue
      [] OTHER -> Len(x.v) > 0

RECURSIVE Join(_, _)
Join(parts, sep) ==
    IF Len(parts) = 0 THEN <<>>
    ELSE IF Len(parts) = 1 THEN parts[1]
    ELSE parts[1] \o sep \o Join(Tail(parts), sep)

RECURSIVE Repr(_)
\* repr(x), and str(x) of a container
Repr(x) ==
    CASE x.t = "str" -> <<"'">> \o x.v \o <<"'">>
      [] x.t = "list" ->
           <<"[">> \o Join([i \in 1..Len(x.v) |-> Repr(x.v[i])], <<",", " ">>)
                   \o <<"]">>
      [] x.t = "dict" ->
           <<"{">> \o Join([i \in 1..Len(x.v) |->
                              <<"'">> \o x.v[i][1] \o <<"'", ":", " ">>
                                      \o Repr(x.v[i][2])],
                           <<",", " ">>)
                   \o <<"}">>
      [] OTHER -> x.v

\* str(x), what an f-string puts in place of {x}
Format(x) == IF IsStr(x) THEN x.v ELSE Repr(x)

DigitChar(d) ==
    CASE d = 0 -> "0" [] d = 1 -> "1" [] d = 2 -> "2" [] d = 3 -> "3"
      [] d = 4 -> "4" [] d = 5 -> "5" [] d = 6 -> "6" [] d = 7 -> "7"
      [] d = 8 -> "8" [] OTHER -> "9"

RECURSIVE Decimal(_)
\* str(i) of a list index, what an f-string puts in place of {i}
Decimal(i) ==
    IF i < 10 THEN <<DigitChar(i)>>
    ELSE Decimal(i \div 10) \o <<DigitChar(i % 10)>>

(***************************************************************************)
(* String primitives.                                                      *)
(***************************************************************************)
StartsAt(s, sub, i) ==
    /\ i + Len(sub) - 1 <= Len(s)
    /\ \A j \in 1..Len(sub) : s[i + j - 1] = sub[j]

\* sub in s, for two strings
IsSubstr(sub, s) == \E i \in 1..(Len(s) + 1) : StartsAt(s, sub, i)

RECURSIVE ReplaceFrom(_, _, _, _)
ReplaceFrom(s, old, new, i) ==
    IF i > Len(s) THEN <<>>
    ELSE IF StartsAt(s, old, i)
         THEN new \o ReplaceFrom(s, old, new, i + Len(old))
         ELSE <<s[i]>> \o ReplaceFrom(s, old, new, i + 1)

\* s.replace(old, new), old not empty: every occurrence, left to right
Replace(s, old, new) == ReplaceFrom(s, old, new, 1)

Whitespace == {" ", "\t", "\n", "\r", "\f"}

\* s.strip() is not empty
StripNonEmpty(s) == \E i \in 1..Len(s) : s[i] \notin Whitespace

Lower == {"a", "b", "c", "d", "e", "f", "g", "h", "i", "j", "k", "l", "m",
          "n", "o", "p", "q", "r", "s", "t", "u", "v", "w", "x", "y", "z"}

Upper == {"A", "B", "C", "D", "E", "F", "G", "H", "I", "J", "K", "L", "M",
          "N", "O", "P", "Q", "R", "S", "T", "U", "V", "W", "X", "Y", "Z"}

Digit == {"0", "1", "2", "3", "4", "5", "6", "7", "8", "9"}

\* re.match(r'^[class]+$', s): one or more characters of the class, then the
\* end of the string or the newline that ends it
MatchClassPlus(class, s) ==
    \E m \in {Len(s), Len(s) - 1} :
        /\ m >= 1
        /\ m = Len(s) \/ s[Len(s)] = "\n"
        /\ \A i \in 1..m : s[i] \in class

\* [class]+ over the whole of s
ClassPlus(class, s) == Len(s) >= 1 /\ \A i \in 1..Len(s) : s[i] \in class

\* r'^[a-zA-Z0-9-_]+$'
NameClass == Lower \cup Upper \cup Digit \cup {"-", "_"}

\* r'^[a-z0-9-]+$'
RegionClass == Lower \cup Digit \cup {"-"}

\* r'^[a-zA-Z0-9-_\s]+$'
OuNameClass == NameClass \cup Whitespace

\* r'^[a-zA-Z0-9-_.]+/[a-zA-Z0-9-_.]+$'
RepoClass == NameClass \cup {"."}

MatchRepo(s) ==
    \E p \in 1..Len(s) :
        /\ s[p] = "/"
        /\ ClassPlus(RepoClass, SubSeq(s, 1, p - 1))
        /\ MatchClassPlus(RepoClass, SubSeq(s, p + 1, Len(s)))

\* r'^[^@]+@[^@]+\.[^@]+$': [^@] takes any other character, the newline too
MatchEmail(s) ==
    \E p \in 2..Len(s) :
        /\ s[p] = "@"
        /\ \A i \in 1..Len(s) : s[i] = "@" => i = p
        /\ \E q \in (p + 2)..(Len(s) - 1) : s[q] = "."

(***************************************************************************)
(* The string literals of the source, as character sequences.               *)
(***************************************************************************)
s_metadata == <<"m", "e", "t", "a", "d", "a", "t", "a">>

s_environments == <<"e", "n", "v", "i", "r", "o", "n", "m", "e", "n", "t", "s">>

s_organization == <<"o", "r", "g", "a", "n", "i", "z", "a", "t", "i", "o", "n">>

s_organizational_units == <<"o", "r", "g", "a", "n", "i", "z", "a", "t", "i", "o", "n", "a", "l", "_", "u", "n", "i", "t", "s">>

s_accounts == <<"a", "c", "c", "o", "u", "n", "t", "s">>

s_policies == <<"p", "o", "l", "i", "c", "i", "e", "s">>

s_sso == <<"s", "s", "o">>

s_github_actions == <<"g", "i", "t", "h", "u", "b", "_", "a", "c", "t", "i", "o", "n", "s">>

s_name == <<"n", "a", "m", "e">>

s_description == <<"d", "e", "s", "c", "r", "i", "p", "t", "i", "o", "n">>

s_target == <<"t", "a", "r", "g", "e", "t">>

s_region == <<"r", "e", "g", "i", "o", "n">>

s_profile == <<"p", "r", "o", "f", "i", "l", "e">>

s_feature_set == <<"f", "e", "a", "t", "u", "r", "e", "_", "s", "e", "t">>

s_default_region == <<"d", "e", "f", "a", "u", "l", "t", "_", "r", "e", "g", "i", "o", "n">>

s_allowed_regions == <<"a", "l", "l", "o", "w", "e", "d", "_", "r", "e", "g", "i", "o", "n", "s">>

s_email == <<"e", "m", "a", "i", "l">>

s_email_template == <<"e", "m", "a", "i", "l", "_", "t", "e", "m", "p", "l", "a", "t", "e">>

s_ou == <<"o", "u">>

s_tag_policies == <<"t", "a", "g", "_", "p", "o", "l", "i", "c", "i", "e", "s">>

s_service_control_policies == <<"s", "e", "r", "v", "i", "c", "e", "_", "c", "o", "n", "t", "r", "o", "l", "_", "p", "o", "l", "i", "c", "i", "e", "s">>

s_enabled == <<"e", "n", "a", "b", "l", "e", "d">>

s_permission_sets == <<"p", "e", "r", "m", "i", "s", "s", "i", "o", "n", "_", "s", "e", "t", "s">>

s_repositories == <<"r", "e", "p", "o", "s", "i", "t", "o", "r", "i", "e", "s">>

s_repo == <<"r", "e", "p", "o">>

s_dev == <<"d", "e", "v">>

s_qa == <<"q", "a">>

s_prod == <<"p", "r", "o", "d">>

s_aws == <<"a", "w", "s">>

s_localstack == <<"l", "o", "c", "a", "l", "s", "t", "a", "c", "k">>

s_ALL == <<"A", "L", "L">>

s_CONSOLIDATED_BILLING == <<"C", "O", "N", "S", "O", "L", "I", "D", "A", "T", "E", "D", "_", "B", "I", "L", "L", "I", "N", "G">>

s_env_placeholder == <<"{", "e", "n", "v", "}">>

s_test == <<"t", "e", "s", "t">>

s_unknown == <<"u", "n", "k", "n", "o", "w", "n">>

(***************************************************************************)
(* Container primitives.  An operation that raises in Python is split in   *)
(* two: whether it raises, and its value when it does not.                 *)
(***************************************************************************)
\* x in c raises TypeError: c is no container, x is not hashable for a dict,
\* or x is not a string for a string
InRaises(x, c) ==
    CASE IsDict(c) -> ~Hashable(x)
      [] IsList(c) -> FALSE
      [] IsStr(c) -> ~IsStr(x)
      [] OTHER -> TRUE

\* x in c: a key of a dict, an element of a list, a substring of a string
In(x, c) ==
    CASE IsDict(c) -> \E i \in 1..Len(c.v) : PyStr(c.v[i][1]) = x
      [] IsList(c) -> \E i \in 1..Len(c.v) : c.v[i] = x
      [] IsStr(c) -> IsSubstr(x.v, c.v)
      [] OTHER -> FALSE

\* 'key' in c
HasKey(c, key) == In(PyStr(key), c)

\* 'key' in c raises
HasKeyRaises(c) == InRaises(PyStr(<<>>), c)

\* c['key'] raises for anything but a dict (the key is known to be in c)
GetItemRaises(c) == ~IsDict(c)

\* c['key'] of a dict that has the key
GetItem(c, key) == c.v[CHOOSE i \in 1..Len(c.v) : c.v[i][1] = key][2]

\* c.get('key', default) of a dict
Get(c, key, default) ==
    IF \E i \in 1..Len(c.v) : c.v[i][1] = key THEN GetItem(c, key) ELSE default

\* iterating c raises TypeError
IterRaises(c) == c.t \notin {"list", "dict", "str"}

\* the values iterating c yields: the elements of a list, the keys of a dict,
\* the characters of a string
Iter(c) ==
    CASE IsList(c) -> c.v
      [] IsDict(c) -> [i \in 1..Len(c.v) |-> PyStr(c.v[i][1])]
      [] IsStr(c) -> [i \in 1..Len(c.v) |-> PyStr(<<c.v[i]>>)]
      [] OTHER -> <<>>

(***************************************************************************)
(* The validator object: self.errors, self.warnings, and the exception     *)
(* that is propagating, if any (NoExc when none).                          *)
(***************************************************************************)
NoExc == "none"

TypeError == "TypeError"

AttributeError == "AttributeError"

\* ConfigValidator()
NewValidator == [errors |-> <<>>, warnings |-> <<>>, exc |-> NoExc]

Raised(self) == self.exc # NoExc

Raise(self, e) == [self EXCEPT !.exc = e]

\* self.errors.append(msg)
AppendError(self, msg) == [self EXCEPT !.errors = Append(@, msg)]

\* self.warnings.append(msg)
AppendWarning(self, msg) == [self EXCEPT !.warnings = Append(@, msg)]

(***************************************************************************)
(* validate_metadata                                                       *)
(***************************************************************************)
\* one turn of the loop over required_fields
MetadataField(self, metadata, fld) ==
    IF Raised(self) THEN self
    ELSE IF HasKeyRaises(metadata) THEN Raise(self, TypeError)
    ELSE IF ~HasKey(metadata, fld)
         THEN AppendError(self, <<"metadata.", fld, " is required">>)
    ELSE IF GetItemRaises(metadata) THEN Raise(self, TypeError)
    ELSE IF \/ ~IsStr(GetItem(metadata, fld))
            \/ ~StripNonEmpty(GetItem(metadata, fld).v)
         THEN AppendError(self, <<"metadata.", fld, " must be a non-empty string">>)
    ELSE self

MetadataName(self, metadata) ==
    IF Raised(self) THEN self
    ELSE IF HasKeyRaises(metadata) THEN Raise(self, TypeError)
    ELSE IF ~HasKey(metadata, s_name) THEN self
    ELSE IF GetItemRaises(metadata) THEN Raise(self, TypeError)
    ELSE IF ~IsStr(GetItem(metadata, s_name)) THEN Raise(self, TypeError)
    ELSE IF ~MatchClassPlus(NameClass, GetItem(metadata, s_name).v)
         THEN AppendError(self, <<"metadata.name should contain only alphanumeric characters, hyphens, and underscores">>)
    ELSE self

validate_metadata(self, metadata) ==
    MetadataName(
        MetadataField(MetadataField(self, metadata, s_name), metadata, s_description),
        metadata)

(***************************************************************************)
(* validate_environments                                                   *)
(***************************************************************************)
required_envs == <<s_dev, s_qa, s_prod>>

RECURSIVE RecommendedEnvs(_, _, _)
\* the loop over required_envs, from its i-th turn
RecommendedEnvs(self, environments, i) ==
    IF Raised(self) \/ i > Len(required_envs) THEN self
    ELSE IF HasKeyRaises(environments) THEN Raise(self, TypeError)
    ELSE RecommendedEnvs(
            IF ~HasKey(environments, required_envs[i])
            THEN AppendWarning(self, <<"Missing recommended environment: ", required_envs[i]>>)
            ELSE self,
            environments, i + 1)

EnvTarget(self, env_name, env_config) ==
    IF ~HasKey(env_config, s_target)
    THEN AppendError(self, <<"environments.", env_name, ".target is required">>)
    ELSE IF GetItem(env_config, s_target) \notin {PyStr(s_aws), PyStr(s_localstack)}
    THEN AppendError(self, <<"environments.", env_name, ".target must be 'aws' or 'localstack'">>)
    ELSE self

EnvRegion(self, env_name, env_config) ==
    IF ~HasKey(env_config, s_region)
    THEN AppendError(self, <<"environments.", env_name, ".region is required">>)
    ELSE self

EnvProfile(self, env_name, env_config) ==
    IF Get(env_config, s_target, PyNone) = PyStr(s_aws) /\ ~HasKey(env_config, s_profile)
    THEN AppendWarning(self, <<"environments.", env_name, ".profile recommended for AWS targets">>)
    ELSE self

\* the body of the loop over environments.items()
Environment(self, env_name, env_config) ==
    IF ~IsDict(env_config)
    THEN AppendError(self, <<"environments.", env_name, " must be an object">>)
    ELSE EnvProfile(EnvRegion(EnvTarget(self, env_name, env_config),
                              env_name, env_config),
                    env_name, env_config)

RECURSIVE EnvironmentItems(_, _, _)
EnvironmentItems(self, environments, i) ==
    IF Raised(self) THEN self
    ELSE IF ~IsDict(environments) THEN Raise(self, AttributeError)
    ELSE IF i > Len(environments.v) THEN self
    ELSE EnvironmentItems(
            Environment(self, environments.v[i][1], environments.v[i][2]),
            environments, i + 1)

validate_environments(self, environments) ==
    EnvironmentItems(RecommendedEnvs(self, environments, 1), environments, 1)

(***************************************************************************)
(* validate_organization                                                   *)
(***************************************************************************)
org_required_fields == <<s_feature_set, s_default_region, s_allowed_regions>>

RECURSIVE OrgRequired(_, _, _)
OrgRequired(self, org_config, i) ==
    IF Raised(self) \/ i > Len(org_required_fields) THEN self
    ELSE IF HasKeyRaises(org_config) THEN Raise(self, TypeError)
    ELSE OrgRequired(
            IF ~HasKey(org_config, org_required_fields[i])
            THEN AppendError(self, <<"organization.", org_required_fields[i], " is required">>)
            ELSE self,
            org_config, i + 1)

OrgFeatureSet(self, org_config) ==
    IF Raised(self) THEN self
    ELSE IF HasKeyRaises(org_config) THEN Raise(self, TypeError)
    ELSE IF ~HasKey(org_config, s_feature_set) THEN self
    ELSE IF GetItemRaises(org_config) THEN Raise(self, TypeError)
    ELSE IF GetItem(org_config, s_feature_set)
              \notin {PyStr(s_ALL), PyStr(s_CONSOLIDATED_BILLING)}
         THEN AppendError(self, <<"organization.feature_set must be 'ALL' or 'CONSOLIDATED_BILLING'">>)
    ELSE self

RECURSIVE OrgRegionFormats(_, _, _)
\* the loop over allowed_regions, a list
OrgRegionFormats(self, regions, i) ==
    IF Raised(self) \/ i > Len(regions.v) THEN self
    ELSE IF ~IsStr(regions.v[i]) THEN Raise(self, TypeError)
    ELSE OrgRegionFormats(
            IF ~MatchClassPlus(RegionClass, regions.v[i].v)
            THEN AppendError(self, <<"Invalid region format: ", Format(regions.v[i])>>)
            ELSE self,
            regions, i + 1)

OrgAllowedRegions(self, org_config) ==
    IF Raised(self) THEN self
    ELSE IF HasKeyRaises(org_config) THEN Raise(self, TypeError)
    ELSE IF ~HasKey(org_config, s_allowed_regions) THEN self
    ELSE IF GetItemRaises(org_config) THEN Raise(self, TypeError)
    ELSE IF ~IsList(GetItem(org_config, s_allowed_regions))
         THEN AppendError(self, <<"organization.allowed_regions must be a list">>)
    ELSE OrgRegionFormats(self, GetItem(org_config, s_allowed_regions), 1)

OrgDefaultRegion(self, org_config) ==
    IF Raised(self) THEN self
    ELSE IF HasKeyRaises(org_config) THEN Raise(self, TypeError)
    ELSE IF ~(HasKey(org_config, s_default_region) /\ HasKey(org_config, s_allowed_regions))
         THEN self
    ELSE IF GetItemRaises(org_config) THEN Raise(self, TypeError)
    ELSE IF InRaises(GetItem(org_config, s_default_region),
                     GetItem(org_config, s_allowed_regions))
         THEN Raise(self, TypeError)
    ELSE IF ~In(GetItem(org_config, s_default_region),
                GetItem(org_config, s_allowed_regions))
         THEN AppendError(self, <<"organization.default_region must be in allowed_regions">>)
    ELSE self

validate_organization(self, org_config) ==
    OrgDefaultRegion(
        OrgAllowedRegions(
            OrgFeatureSet(OrgRequired(self, org_config, 1), org_config),
            org_config),
        org_config)

(***************************************************************************)
(* validate_organizational_units                                           *)
(***************************************************************************)
\* the body of the loop, on the loop's state [self, ou_names]; i counts from 1
OuEntry(st, i, ou) ==
    IF ~IsDict(ou)
    THEN [st EXCEPT !.self = AppendError(@, <<"organizational_units[", Decimal(i - 1), "] must be an object">>)]
    ELSE IF ~HasKey(ou, s_name)
    THEN [st EXCEPT !.self = AppendError(@, <<"organizational_units[", Decimal(i - 1), "].name is required">>)]
    ELSE LET name == GetItem(ou, s_name)
             dup == IF name \in st.ou_names
                    THEN AppendError(st.self, <<"Duplicate OU name: ", Format(name)>>)
                    ELSE st.self
         IN  IF ~Hashable(name) THEN [st EXCEPT !.self = Raise(@, TypeError)]
             ELSE [self |-> IF ~IsStr(name) THEN Raise(dup, TypeError)
                            ELSE IF ~MatchClassPlus(OuNameClass, name.v)
                            THEN AppendError(dup, <<"OU name '", Format(name), "' contains invalid characters">>)
                            ELSE dup,
                   ou_names |-> st.ou_names \cup {name}]

RECURSIVE OuLoop(_, _, _)
OuLoop(st, ous, i) ==
    IF Raised(st.self) \/ i > Len(ous.v) THEN st
    ELSE OuLoop(OuEntry(st, i, ous.v[i]), ous, i + 1)

validate_organizational_units(self, ous) ==
    IF ~IsList(ous) THEN AppendError(self, <<"organizational_units must be a list">>)
    ELSE OuLoop([self |-> self, ou_names |-> {}], ous, 1).self

(***************************************************************************)
(* validate_accounts                                                       *)
(***************************************************************************)
\* the entries of ous the set comprehension keeps
DeclaredOus(ous) ==
    {i \in 1..Len(Iter(ous)) : IsDict(Iter(ous)[i]) /\ HasKey(Iter(ous)[i], s_name)}

\* building ou_names raises: ous cannot be iterated, or a name is not hashable
OuNamesRaises(ous) ==
    \/ IterRaises(ous)
    \/ \E i \in DeclaredOus(ous) : ~Hashable(GetItem(Iter(ous)[i], s_name))

\* {ou['name'] for ou in ous if isinstance(ou, dict) and 'name' in ou}
OuNames(ous) == {GetItem(Iter(ous)[i], s_name) : i \in DeclaredOus(ous)}

\* "Validate required fields" and "Require either email or email_template"
AccountRequired(self, i, account) ==
    LET named == IF ~HasKey(account, s_name)
                 THEN AppendError(self, <<"accounts[", Decimal(i - 1), "].name is required">>)
                 ELSE self
        has_email == HasKey(account, s_email)
        has_email_template == HasKey(account, s_email_template)
    IN  IF ~has_email /\ ~has_email_template
        THEN AppendError(named, <<"accounts[", Decimal(i - 1), "] must have either 'email' or 'email_template'">>)
        ELSE IF has_email /\ has_email_template
        THEN AppendError(named, <<"accounts[", Decimal(i - 1), "] cannot have both 'email' and 'email_template'">>)
        ELSE named

\* AccountName without account_names.add(name): no name is ever seen twice
AccountName_forgets(st, account) ==
    IF Raised(st.self) \/ ~HasKey(account, s_name) THEN st
    ELSE LET name == GetItem(account, s_name)
             dup == IF name \in st.account_names
                    THEN AppendError(st.self, <<"Duplicate account name: ", Format(name)>>)
                    ELSE st.self
         IN  IF ~Hashable(name) THEN [st EXCEPT !.self = Raise(@, TypeError)]
             ELSE [st EXCEPT
                     !.self = IF ~IsStr(name) THEN Raise(dup, TypeError)
                              ELSE IF ~MatchClassPlus(NameClass, name.v)
                              THEN AppendError(dup, <<"Account name '", Format(name), "' should contain only alphanumeric characters, hyphens, and underscores">>)
                              ELSE dup]

\* "Validate name uniqueness" and "Validate name format"
AccountName(st, account) ==
    IF Raised(st.self) \/ ~HasKey(account, s_name) THEN st
    ELSE LET name == GetItem(account, s_name)
             dup == IF name \in st.account_names
                    THEN AppendError(st.self, <<"Duplicate account name: ", Format(name)>>)
                    ELSE st.self
         IN  IF ~Hashable(name) THEN [st EXCEPT !.self = Raise(@, TypeError)]
             ELSE [st EXCEPT
                     !.self = IF ~IsStr(name) THEN Raise(dup, TypeError)
                              ELSE IF ~MatchClassPlus(NameClass, name.v)
                              THEN AppendError(dup, <<"Account name '", Format(name), "' should contain only alphanumeric characters, hyphens, and underscores">>)
                              ELSE dup,
                     !.account_names = @ \cup {name}]

\* email_to_check: the literal email, or the template with 'test' for {env};
\* PyNone when there is neither, or the template has no {env}
EmailToCheck(account) ==
    IF HasKey(account, s_email) THEN GetItem(account, s_email)
    ELSE IF HasKey(account, s_email_template)
            /\ IsStr(GetItem(account, s_email_template))
            /\ In(PyStr(s_env_placeholder), GetItem(account, s_email_template))
    THEN PyStr(Replace(GetItem(account, s_email_template).v, s_env_placeholder, s_test))
    ELSE PyNone

\* the elif branch that reads the template
AccountTemplate(st, account) ==
    IF Raised(st.self) \/ HasKey(account, s_email) \/ ~HasKey(account, s_email_template)
    THEN st
    ELSE LET template == GetItem(account, s_email_template)
         IN  IF InRaises(PyStr(s_env_placeholder), template)
             THEN [st EXCEPT !.self = Raise(@, TypeError)]
             ELSE IF ~In(PyStr(s_env_placeholder), template)
             THEN [st EXCEPT !.self = AppendError(@, <<"email_template must contain '{env}' placeholder: ", Format(template)>>)]
             ELSE IF ~IsStr(template)
             THEN [st EXCEPT !.self = Raise(@, AttributeError)]
             ELSE st

\* "if email_to_check:", uniqueness and "Basic email validation"
AccountEmail(st, account) ==
    IF Raised(st.self) \/ ~Truthy(EmailToCheck(account)) THEN st
    ELSE LET email_to_check == EmailToCheck(account)
             dup == IF email_to_check \in st.account_emails
                    THEN AppendError(st.self, <<"Duplicate account email/template: ", Format(email_to_check)>>)
                    ELSE st.self
         IN  IF ~Hashable(email_to_check) THEN [st EXCEPT !.self = Raise(@, TypeError)]
             ELSE [st EXCEPT
                     !.self = IF ~IsStr(email_to_check) THEN Raise(dup, TypeError)
                              ELSE IF ~MatchEmail(email_to_check.v)
                              THEN AppendError(dup, <<"Invalid email format: ", Format(email_to_check)>>)
                              ELSE dup,
                     !.account_emails = @ \cup {email_to_check}]

\* "Validate OU reference"
AccountOu(st, account, ou_names) ==
    IF Raised(st.self) \/ ~HasKey(account, s_ou) THEN st
    ELSE LET ou == GetItem(account, s_ou)
         IN  IF ~Hashable(ou) THEN [st EXCEPT !.self = Raise(@, TypeError)]
             ELSE IF ou \notin ou_names
             THEN [st EXCEPT !.self = AppendError(@,
                     <<"Account '", Format(Get(account, s_name, PyStr(s_unknown))),
                       "' references unknown OU: ", Format(ou)>>)]
             ELSE st

\* the body of the loop, on the loop's state [self, account_names,
\* account_emails]; i counts from 1
AccountEntry(st, i, account, ou_names) ==
    IF ~IsDict(account)
    THEN [st EXCEPT !.self = AppendError(@, <<"accounts[", Decimal(i - 1), "] must be an object">>)]
    ELSE AccountOu(
            AccountEmail(
                AccountTemplate(
                    AccountName([st EXCEPT !.self = AccountRequired(@, i, account)],
                                account),
                    account),
                account),
            account, ou_names)

RECURSIVE AccountLoop(_, _, _, _)
AccountLoop(st, accounts, i, ou_names) ==
    IF Raised(st.self) \/ i > Len(accounts.v) THEN st
    ELSE AccountLoop(AccountEntry(st, i, accounts.v[i], ou_names),
                     accounts, i + 1, ou_names)

validate_accounts(self, accounts, ous) ==
    IF ~IsList(accounts) THEN AppendError(self, <<"accounts must be a list">>)
    ELSE IF OuNamesRaises(ous) THEN Raise(self, TypeError)
    ELSE AccountLoop([self |-> self, account_names |-> {}, account_emails |-> {}],
                     accounts, 1, OuNames(ous)).self

(***************************************************************************)
(* validate_policies, validate_sso, validate_github_actions                *)
(***************************************************************************)
RECURSIVE NamedObjects(_, _, _, _)
\* the loop over a list whose elements must be objects with a name; prefix is
\* the text before the index
NamedObjects(self, items, prefix, i) ==
    IF i > Len(items.v) THEN self
    ELSE NamedObjects(
            IF ~IsDict(items.v[i])
            THEN AppendError(self, <<prefix, Decimal(i - 1), "] must be an object">>)
            ELSE IF ~HasKey(items.v[i], s_name)
            THEN AppendError(self, <<prefix, Decimal(i - 1), "].name is required">>)
            ELSE self,
            items, prefix, i + 1)

PoliciesTag(self, policies) ==
    IF Raised(self) THEN self
    ELSE IF HasKeyRaises(policies) THEN Raise(self, TypeError)
    ELSE IF ~HasKey(policies, s_tag_policies) THEN self
    ELSE IF GetItemRaises(policies) THEN Raise(self, TypeError)
    ELSE IF ~IsList(GetItem(policies, s_tag_policies))
         THEN AppendError(self, <<"policies.tag_policies must be a list">>)
    ELSE NamedObjects(self, GetItem(policies, s_tag_policies), "policies.tag_policies[", 1)

PoliciesScp(self, policies) ==
    IF Raised(self) THEN self
    ELSE IF HasKeyRaises(policies) THEN Raise(self, TypeError)
    ELSE IF ~HasKey(policies, s_service_control_policies) THEN self
    ELSE IF GetItemRaises(policies) THEN Raise(self, TypeError)
    ELSE IF ~IsList(GetItem(policies, s_service_control_policies))
         THEN AppendError(self, <<"policies.service_control_policies must be a list">>)
    ELSE self

validate_policies(self, policies) == PoliciesScp(PoliciesTag(self, policies), policies)

SsoEnabled(self, sso_config) ==
    IF HasKey(sso_config, s_enabled) /\ ~IsBool(GetItem(sso_config, s_enabled))
    THEN AppendError(self, <<"sso.enabled must be a boolean">>)
    ELSE self

SsoPermissionSets(self, sso_config) ==
    IF ~HasKey(sso_config, s_permission_sets) THEN self
    ELSE IF ~IsList(GetItem(sso_config, s_permission_sets))
    THEN AppendError(self, <<"sso.permission_sets must be a list">>)
    ELSE NamedObjects(self, GetItem(sso_config, s_permission_sets), "sso.permission_sets[", 1)

validate_sso(self, sso_config) ==
    IF ~IsDict(sso_config) THEN AppendError(self, <<"sso must be an object">>)
    ELSE SsoPermissionSets(SsoEnabled(self, sso_config), sso_config)

GithubEnabled(self, github_config) ==
    IF HasKey(github_config, s_enabled) /\ ~IsBool(GetItem(github_config, s_enabled))
    THEN AppendError(self, <<"github_actions.enabled must be a boolean">>)
    ELSE self

RECURSIVE GithubRepos(_, _, _)
GithubRepos(self, repos, i) ==
    IF Raised(self) \/ i > Len(repos.v) THEN self
    ELSE GithubRepos(
            IF ~(IsDict(repos.v[i]) /\ HasKey(repos.v[i], s_repo)) THEN self
            ELSE IF ~IsStr(GetItem(repos.v[i], s_repo)) THEN Raise(self, TypeError)
            ELSE IF ~MatchRepo(GetItem(repos.v[i], s_repo).v)
            THEN AppendError(self, <<"github_actions.repositories[", Decimal(i - 1), "].repo has invalid format (should be 'org/repo')">>)
            ELSE self,
            repos, i + 1)

GithubRepositories(self, github_config) ==
    IF ~HasKey(github_config, s_repositories) THEN self
    ELSE IF ~IsList(GetItem(github_config, s_repositories))
    THEN AppendError(self, <<"github_actions.repositories must be a list">>)
    ELSE GithubRepos(self, GetItem(github_config, s_repositories), 1)

validate_github_actions(self, github_config) ==
    IF ~IsDict(github_config) THEN AppendError(self, <<"github_actions must be an object">>)
    ELSE GithubRepositories(GithubEnabled(self, github_config), github_config)

(***************************************************************************)
(* validate_config                                                         *)
(***************************************************************************)
\* required_sections with its last section left out
required_sections_short ==
    <<s_metadata, s_environments, s_organization, s_organizational_units>>

required_sections ==
    <<s_metadata, s_environments, s_organization, s_organizational_units, s_accounts>>

\* the sections in the order validate_config dispatches them
dispatch_order ==
    <<s_metadata, s_environments, s_organization, s_organizational_units,
      s_accounts, s_policies, s_sso, s_github_actions>>

\* validate_config without the two assignments that empty the lists
ResetAccumulators_keep(self) == self

\* self.errors = []; self.warnings = []
ResetAccumulators(self) == [self EXCEPT !.errors = <<>>, !.warnings = <<>>]

RECURSIVE RequiredSections(_, _, _)
\* "Check required top-level sections", from the i-th section
RequiredSections(self, cfg, i) ==
    IF Raised(self) \/ i > Len(required_sections) THEN self
    ELSE IF HasKeyRaises(cfg) THEN Raise(self, TypeError)
    ELSE RequiredSections(
            IF ~HasKey(cfg, required_sections[i])
            THEN AppendError(self, <<"Missing required section: ", required_sections[i]>>)
            ELSE self,
            cfg, i + 1)

\* the call one "if '<section>' in config:" block makes
SectionCheck(self, section, value, cfg) ==
    CASE section = s_metadata -> validate_metadata(self, value)
      [] section = s_environments -> validate_environments(self, value)
      [] section = s_organization -> validate_organization(self, value)
      [] section = s_organizational_units -> validate_organizational_units(self, value)
      [] section = s_accounts ->
           validate_accounts(self, value, Get(cfg, s_organizational_units, PyList(<<>>)))
      [] section = s_policies -> validate_policies(self, value)
      [] section = s_sso -> validate_sso(self, value)
      [] OTHER -> validate_github_actions(self, value)

\* one "if '<section>' in config:" block
DispatchSection(self, section, cfg) ==
    IF Raised(self) THEN self
    ELSE IF HasKeyRaises(cfg) THEN Raise(self, TypeError)
    ELSE IF ~HasKey(cfg, section) THEN self
    ELSE IF GetItemRaises(cfg) THEN Raise(self, TypeError)
    ELSE SectionCheck(self, section, GetItem(cfg, section), cfg)

RECURSIVE Dispatch(_, _, _, _)
\* "Validate each section": the blocks in the given order, from the i-th
Dispatch(self, order, cfg, i) ==
    IF i > Len(order) THEN self
    ELSE Dispatch(DispatchSection(self, order[i], cfg), order, cfg, i + 1)

\* the validator after validate_config(config); exc is set when the call raised
validate_config(self, cfg) ==
    Dispatch(RequiredSections(ResetAccumulators(self), cfg, 1), dispatch_order, cfg, 1)

\* return len(self.errors) == 0
ReturnValue(self) == Len(self.errors) = 0

(***************************************************************************)
(* validate_file.  The path is modelled by what loading it gives: no such  *)
(* file, a document yaml.safe_load cannot decode, or the decoded tree.     *)
(***************************************************************************)
FileKinds == {"missing", "undecodable", "decoded"}

\* validate_file(path): the validator after the call and the value returned;
\* the call never raises
validate_file(self, kind, cfg) ==
    CASE kind = "missing" ->
           [validator |-> AppendError(self, <<"Configuration file not found: ", "config_path">>),
            returned |-> FALSE]
      [] kind = "undecodable" ->
           [validator |-> AppendError(self, <<"YAML parsing error: ", "YAMLError">>),
            returned |-> FALSE]
      [] OTHER ->
           LET after == validate_config(self, cfg)
           IN  IF Raised(after)
               THEN [validator |-> AppendError(Raise(after, NoExc),
                                               <<"Unexpected error: ", after.exc>>),
                     returned |-> FALSE]
               ELSE [validator |-> after, returned |-> ReturnValue(after)]

(***************************************************************************)
(* main: the process exit code                                             *)
(***************************************************************************)
\* main without the --strict branch
ExitCode_ignores_strict(is_valid, strict_flag, validator) ==
    IF ~is_valid THEN "1" ELSE "0"

ExitCode(is_valid, strict_flag, validator) ==
    IF ~is_valid THEN "1"
    ELSE IF strict_flag /\ Len(validator.warnings) > 0 THEN "1"
    ELSE "0"

(***************************************************************************)
(* The documents the model validates.                                      *)
(***************************************************************************)
\* the mark of a key a document does not have
Absent ==
    [t |-> "absent", v |-> <<>>]

meta_ok ==
    PyDict(<<<<s_name, PyStr(<<"o", "1">>)>>, <<s_description, PyStr(<<"d">>)>>>>)

meta_scalar ==
    PyStr(<<"x">>)

meta_name_int ==
    PyDict(<<<<s_name, PyInt(<<"5">>)>>, <<s_description, PyStr(<<"d">>)>>>>)

MetadataValues ==
    {Absent, meta_ok, PyNone, meta_scalar, meta_name_int}

env_aws ==
    PyDict(<<<<s_target, PyStr(<<"a", "w", "s">>)>>, <<s_region, PyStr(<<"r", "1">>)>>, <<s_profile, PyStr(<<"p">>)>>>>)

env_local ==
    PyDict(<<<<s_target, PyStr(<<"l", "o", "c", "a", "l", "s", "t", "a", "c", "k">>)>>, <<s_region, PyStr(<<"r", "1">>)>>>>)

envs_dev_qa ==
    PyDict(<< <<s_dev, env_aws>>, <<s_qa, env_local>> >>)

envs_all ==
    PyDict(<< <<s_dev, env_local>>, <<s_qa, env_aws>>, <<s_prod, env_aws>> >>)

envs_bad ==
    PyDict(<< <<s_dev, PyInt(<<"5">>)>>, <<s_qa, PyDict(<<<<s_target, PyStr(<<"g", "c", "p">>)>>>>)>>, <<s_prod, PyDict(<<<<s_target, PyStr(<<"a", "w", "s">>)>>, <<s_region, PyStr(<<"r", "1">>)>>>>)>> >>)

EnvironmentsValues ==
    {Absent, envs_dev_qa, envs_all, envs_bad, PyNone, PyList(<<>>)}

org_ok ==
    PyDict(<<<<s_feature_set, PyStr(<<"A", "L", "L">>)>>, <<s_default_region, PyStr(<<"r", "1">>)>>, <<s_allowed_regions, PyList(<<PyStr(<<"r", "1">>), PyStr(<<"r", "2">>)>>)>>>>)

org_bad ==
    PyDict(<<<<s_feature_set, PyStr(<<"x">>)>>, <<s_default_region, PyStr(<<"r", "9">>)>>, <<s_allowed_regions, PyList(<<PyStr(<<"r", "1">>), PyStr(<<"R", "!">>)>>)>>>>)

org_region_int ==
    PyDict(<<<<s_feature_set, PyStr(<<"A", "L", "L">>)>>, <<s_default_region, PyStr(<<"r", "1">>)>>, <<s_allowed_regions, PyList(<<PyStr(<<"r", "1">>), PyInt(<<"5">>)>>)>>>>)

OrganizationValues ==
    {Absent, org_ok, org_bad, org_region_int, PyNone}

ou_core ==
    PyDict(<<<<s_name, PyStr(<<"C", "o", "r", "e">>)>>>>)

ous_core ==
    PyList(<<ou_core>>)

ous_bad ==
    PyList(<<ou_core, ou_core, PyInt(<<"5">>), PyDict(<<>>), PyDict(<<<<s_name, PyStr(<<"a", "/", "b">>)>>>>)>>)

OuValues ==
    {Absent, ous_core, ous_bad, PyNone, PyStr(<<"x">>)}

acct_literal ==
    PyDict(<<<<s_name, PyStr(<<"a">>)>>, <<s_email, PyStr(<<"u", "t", "e", "s", "t", "@", "h", ".", "c">>)>>, <<s_ou, PyStr(<<"C", "o", "r", "e">>)>>>>)

acct_template ==
    PyDict(<<<<s_name, PyStr(<<"b">>)>>, <<s_email_template, PyStr(<<"u", "{", "e", "n", "v", "}", "@", "h", ".", "c">>)>>>>)

acct_same_name ==
    PyDict(<<<<s_name, PyStr(<<"a">>)>>, <<s_email, PyStr(<<>>)>>>>)

acct_both ==
    PyDict(<<<<s_name, PyStr(<<"c">>)>>, <<s_email, PyStr(<<"v", "@", "h", ".", "c">>)>>, <<s_email_template, PyStr(<<"u", "{", "e", "n", "v", "}", "@", "h", ".", "c">>)>>, <<s_ou, PyStr(<<"N", "o", "p", "e">>)>>>>)

acct_name_int ==
    PyDict(<<<<s_name, PyInt(<<"5">>)>>, <<s_email, PyStr(<<"w", "@", "h", ".", "c">>)>>>>)

acct_anonymous ==
    PyDict(<<<<s_email_template, PyStr(<<"x", ".", "y">>)>>, <<s_ou, PyStr(<<"N", "o", "p", "e">>)>>>>)

\* the account entries the lists are drawn from
AccountPool ==
    {acct_literal, acct_template, acct_same_name, acct_both, acct_anonymous}

\* every list of at most MaxAccounts entries of the pool
AccountLists ==
    UNION {[1..n -> AccountPool] : n \in 0..MaxAccounts}

opt_ok ==
    << <<s_policies, PyDict(<<<<s_tag_policies, PyList(<<PyDict(<<<<s_name, PyStr(<<"t">>)>>>>)>>)>>, <<s_service_control_policies, PyList(<<>>)>>>>)>>,
       <<s_sso, PyDict(<<<<s_enabled, PyTrue>>, <<s_permission_sets, PyList(<<PyDict(<<<<s_name, PyStr(<<"p">>)>>>>)>>)>>>>)>>,
       <<s_github_actions, PyDict(<<<<s_enabled, PyTrue>>, <<s_repositories, PyList(<<PyDict(<<<<s_repo, PyStr(<<"o", "/", "r">>)>>>>)>>)>>>>)>> >>

opt_bad ==
    << <<s_policies, PyDict(<<<<s_tag_policies, PyList(<<PyInt(<<"5">>), PyDict(<<>>)>>)>>, <<s_service_control_policies, PyInt(<<"5">>)>>>>)>>,
       <<s_sso, PyInt(<<"5">>)>>,
       <<s_github_actions, PyDict(<<<<s_enabled, PyInt(<<"5">>)>>, <<s_repositories, PyList(<<PyDict(<<<<s_repo, PyStr(<<"x">>)>>>>), PyInt(<<"5">>)>>)>>>>)>> >>

opt_raising ==
    << <<s_policies, PyNone>>,
       <<s_sso, PyDict(<<<<s_enabled, PyInt(<<"5">>)>>, <<s_permission_sets, PyInt(<<"5">>)>>>>)>>,
       <<s_github_actions, PyDict(<<<<s_repositories, PyInt(<<"5">>)>>>>)>> >>

\* the shapes of accounts that are not lists of pool entries
AccountsValues ==
    {Absent, PyNone, PyStr(<<"x">>), PyList(<<PyInt(<<"5">>), acct_literal>>),
     PyList(<<acct_literal, acct_name_int>>), PyList(<<acct_name_int, acct_literal>>)}

\* the optional sections a document carries
OptionalValues ==
    {<<>>, opt_ok, opt_bad, opt_raising}

\* the decoded document with the given sections, Absent ones left out
MkConfig(m, e, o, u, a, opt) ==
    PyDict(SelectSeq(<< <<s_metadata, m>>, <<s_environments, e>>, <<s_organization, o>>,
                        <<s_organizational_units, u>>, <<s_accounts, a>> >>,
                     LAMBDA item : item[2] # Absent) \o opt)

\* every combination of the shapes of the five mandatory sections: absent,
\* well formed, malformed, null
SectionConfigs ==
    {MkConfig(m, e, o, u, a, <<>>) :
        m \in {Absent, meta_ok, meta_name_int, PyNone},
        e \in {Absent, envs_dev_qa, envs_bad, PyNone},
        o \in {Absent, org_ok, org_bad, PyNone},
        u \in {Absent, ous_core, ous_bad, PyNone},
        a \in {Absent, PyList(<<acct_literal>>), PyNone}}

\* a well-formed document with one section given each of its shapes
ShapeConfigs ==
    {MkConfig(m, envs_dev_qa, org_ok, ous_core, PyList(<<acct_literal>>), <<>>) :
        m \in MetadataValues}
    \cup {MkConfig(meta_ok, e, org_ok, ous_core, PyList(<<acct_template>>), <<>>) :
            e \in EnvironmentsValues}
    \cup {MkConfig(meta_ok, envs_dev_qa, o, ous_core, PyList(<<>>), <<>>) :
            o \in OrganizationValues}
    \cup {MkConfig(meta_ok, envs_dev_qa, org_ok, u, PyList(<<acct_literal>>), <<>>) :
            u \in OuValues}
    \cup {MkConfig(meta_ok, envs_dev_qa, org_ok, ous_core, a, <<>>) :
            a \in AccountsValues}
    \cup {MkConfig(meta_ok, e, org_ok, ous_core, PyList(<<acct_literal>>), opt) :
            e \in {envs_dev_qa, envs_all}, opt \in OptionalValues}

\* every account list, in a document whose other sections are well formed;
\* and the lists one entry shorter, in a document whose organizational_units
\* is null
AccountConfigs ==
    {MkConfig(meta_ok, envs_dev_qa, org_ok, ous_core, PyList(a), <<>>) :
        a \in AccountLists}
    \cup {MkConfig(meta_ok, envs_dev_qa, org_ok, PyNone, PyList(a), <<>>) :
            a \in {b \in AccountLists : Len(b) < MaxAccounts}}

\* documents whose root is no mapping: the empty document, a list
RootConfigs == {PyNone, PyList(<<>>)}

Configs == SectionConfigs \cup ShapeConfigs \cup AccountConfigs \cup RootConfigs

(***************************************************************************)
(* The state machine.  config is the tree the caller holds; errors and     *)
(* warnings are the validator's two lists; op, file, strict record the     *)
(* last call and its arguments, result what it returned ("raised" when it  *)
(* raised), exit the exit code of the process once main has ended it.      *)
(* repeated says that the last call was validate_config and so was the     *)
(* call before it; loadFailures counts the failed loads in a row.          *)
(***************************************************************************)
Self == [errors |-> errors, warnings |-> warnings, exc |-> NoExc]

Outcome(after) ==
    IF Raised(after) THEN "raised" ELSE IF ReturnValue(after) THEN "True" ELSE "False"

Init ==
    /\ config \in Configs
    /\ errors = <<>>
    /\ warnings = <<>>
    /\ op = "new"
    /\ repeated = FALSE
    /\ result = "none"
    /\ file = "none"
    /\ strict = FALSE
    /\ exit = "none"
    /\ loadFailures = 0
    /\ pending = {}

\* validator.validate_config(config)
ValidateConfig ==
    /\ exit = "none"
    /\ LET after == validate_config(Self, config)
       IN  /\ errors' = after.errors
           /\ warnings' = after.warnings
           /\ result' = Outcome(after)
    /\ op' = "validate_config"
    /\ repeated' = (op = "validate_config")
    /\ file' = "none"
    /\ loadFailures' = 0
    /\ UNCHANGED <<config, strict, exit, pending>>

\* validator.validate_file(path)
ValidateFile(kind) ==
    /\ exit = "none"
    /\ kind # "decoded" => loadFailures < MaxLoadFailures
    /\ LET call == validate_file(Self, kind, config)
       IN  /\ errors' = call.validator.errors
           /\ warnings' = call.validator.warnings
           /\ result' = IF call.returned THEN "True" ELSE "False"
    /\ op' = "validate_file"
    /\ repeated' = FALSE
    /\ file' = kind
    /\ loadFailures' = IF kind = "decoded" THEN 0 ELSE loadFailures + 1
    /\ UNCHANGED <<config, strict, exit, pending>>

\* the process: main() with a path and the --strict flag
Main(kind, strict_flag) ==
    /\ op = "new"
    /\ LET call == validate_file(NewValidator, kind, config)
       IN  /\ errors' = call.validator.errors
           /\ warnings' = call.validator.warnings
           /\ result' = IF call.returned THEN "True" ELSE "False"
           /\ exit' = ExitCode(call.returned, strict_flag, call.validator)
    /\ op' = "main"
    /\ file' = kind
    /\ strict' = strict_flag
    /\ UNCHANGED <<config, repeated, loadFailures, pending>>

Next ==
    \/ ValidateConfig
    \/ \E kind \in FileKinds : ValidateFile(kind)
    \/ \E kind \in FileKinds, strict_flag \in BOOLEAN : Main(kind, strict_flag)

Spec == Init /\ [][Next]_vars

(***************************************************************************)
(* The section checks called one by one, in any order: validate_config's   *)
(* reset and required-section loop, then each "if '<section>' in config:"  *)
(* block once, in an order the caller chooses, then the return.  An        *)
(* exception ends the run.  pending holds the blocks not yet run, by their *)
(* place in dispatch_order.                                                *)
(***************************************************************************)
OrderConfigs ==
    {MkConfig(m, e, org_ok, ous_core, a, opt) :
        m \in {meta_ok, PyNone}, e \in {envs_dev_qa, envs_bad},
        a \in {PyList(<<acct_literal>>), PyNone}, opt \in {<<>>, opt_bad}}

InitOrder ==
    /\ config \in OrderConfigs
    /\ errors = <<>>
    /\ warnings = <<>>
    /\ op = "new"
    /\ repeated = FALSE
    /\ result = "none"
    /\ file = "none"
    /\ strict = FALSE
    /\ exit = "none"
    /\ loadFailures = 0
    /\ pending = {}

Begin ==
    /\ op = "new"
    /\ LET after == RequiredSections(ResetAccumulators(Self), config, 1)
       IN  /\ errors' = after.errors
           /\ warnings' = after.warnings
           /\ op' = IF Raised(after) THEN "done" ELSE "dispatch"
           /\ result' = IF Raised(after) THEN "raised" ELSE "none"
    /\ pending' = 1..Len(dispatch_order)
    /\ UNCHANGED <<config, repeated, file, strict, exit, loadFailures>>

RunCheck(k) ==
    /\ op = "dispatch"
    /\ k \in pending
    /\ LET after == DispatchSection(Self, dispatch_order[k], config)
       IN  /\ errors' = after.errors
           /\ warnings' = after.warnings
           /\ op' = IF Raised(after) THEN "done" ELSE "dispatch"
           /\ result' = IF Raised(after) THEN "raised" ELSE "none"
    /\ pending' = pending \ {k}
    /\ UNCHANGED <<config, repeated, file, strict, exit, loadFailures>>

Return ==
    /\ op = "dispatch"
    /\ pending = {}
    /\ result' = Outcome(Self)
    /\ op' = "done"
    /\ UNCHANGED <<config, errors, warnings, repeated, file, strict, exit,
                   loadFailures, pending>>

NextOrder ==
    \/ Begin
    \/ \E k \in 1..Len(dispatch_order) : RunCheck(k)
    \/ Return

SpecOrder == InitOrder /\ [][NextOrder]_vars

(***************************************************************************)
(* The vocabulary of the properties: what a document declares and what a   *)
(* report holds, read off the document and the two lists.                  *)
(***************************************************************************)
ToSet(seq) == {seq[i] : i \in 1..Len(seq)}

\* how many times msg is in the list
Count(seq, msg) == Cardinality({i \in 1..Len(seq) : seq[i] = msg})

\* the last call validated the tree: validate_config, or validate_file or main
\* on a path whose document decodes to it
Validated ==
    \/ op = "validate_config"
    \/ op \in {"validate_file", "main"} /\ file = "decoded"

\* the last call was a load that failed
LoadFailed == op \in {"validate_file", "main"} /\ file \in {"missing", "undecodable"}

\* validate_config raised in the last call (validate_file reports it as an
\* "Unexpected error")
RunRaised ==
    IF op = "validate_config" THEN result = "raised"
    ELSE \E i \in 1..Len(errors) : errors[i][1] = "Unexpected error: "

MandatorySections ==
    {s_metadata, s_environments, s_organization, s_organizational_units, s_accounts}

\* the document is a mapping with a list under accounts
HasAccountList ==
    IsDict(config) /\ HasKey(config, s_accounts) /\ IsList(GetItem(config, s_accounts))

\* the account list (empty when there is none)
Accounts == IF HasAccountList THEN GetItem(config, s_accounts).v ELSE <<>>

\* the entries that are objects with the given key
AccountsWith(key) ==
    {i \in 1..Len(Accounts) : IsDict(Accounts[i]) /\ HasKey(Accounts[i], key)}

\* the names of the OUs organizational_units declares
DeclaredOuNames ==
    IF IsDict(config) /\ HasKey(config, s_organizational_units)
       /\ IsList(GetItem(config, s_organizational_units))
    THEN LET ous == GetItem(config, s_organizational_units).v
         IN  {GetItem(ous[i], s_name) :
                 i \in {j \in 1..Len(ous) : IsDict(ous[j]) /\ HasKey(ous[j], s_name)}}
    ELSE {}

\* the entries that carry the name n
Occurrences(n) == {i \in AccountsWith(s_name) : GetItem(Accounts[i], s_name) = n}

AccountNames == {GetItem(Accounts[i], s_name) : i \in AccountsWith(s_name)}

DuplicateNameErrors(n) == Count(errors, <<"Duplicate account name: ", Format(n)>>)

\* metadata, environments and organization are present and well formed, and
\* the document has no optional section
OtherSectionsWellFormed ==
    /\ IsDict(config)
    /\ HasKey(config, s_metadata) /\ GetItem(config, s_metadata) = meta_ok
    /\ HasKey(config, s_environments)
    /\ GetItem(config, s_environments) \in {envs_dev_qa, envs_all}
    /\ HasKey(config, s_organization) /\ GetItem(config, s_organization) = org_ok
    /\ \A section \in {s_policies, s_sso, s_github_actions} : ~HasKey(config, section)

\* a fully well-formed document whose environments are dev and qa only
WellFormedDevQa ==
    {MkConfig(meta_ok, envs_dev_qa, org_ok, ous_core, PyList(a), opt) :
        a \in {<<>>, <<acct_literal>>, <<acct_template>>}, opt \in {<<>>, opt_ok}}

(***************************************************************************)
(* C1.  validate_config completes and returns on every tree whose sections *)
(* or fields have the wrong shape: it never raises.                        *)
(***************************************************************************)
C1_NeverRaises ==
    (op = "validate_config" /\ IsDict(config)) => result \in {"True", "False"}

(***************************************************************************)
(* C2.  A mandatory section that the document does not have is named by a  *)
(* "Missing required section" error in the list the validation leaves,     *)
(* whatever the other sections are: well formed, malformed (the run may    *)
(* even raise on them) or absent.                                          *)
(***************************************************************************)
C2_MissingSectionReported ==
    (Validated /\ IsDict(config)) =>
        \A section \in MandatorySections :
            ~HasKey(config, section) =>
                <<"Missing required section: ", section>> \in ToSet(errors)

\* a section is absent, another is malformed so badly that the run raised,
\* and the absent one is reported all the same
C2_Witness ==
    /\ op = "validate_config"
    /\ result = "raised"
    /\ IsDict(config)
    /\ ~HasKey(config, s_accounts)
    /\ HasKey(config, s_metadata)
    /\ <<"Missing required section: ", s_accounts>> \in ToSet(errors)

(***************************************************************************)
(* C3.  A validate_config call that directly follows a validate_config     *)
(* call on the same tree leaves the same error list and the same warning   *)
(* list, message for message, whatever was called before the two.          *)
(***************************************************************************)
C3_SecondRunIdentical ==
    [][repeated' => (errors' = errors /\ warnings' = warnings)]_vars

\* a second run in a row that reported errors and warnings
C3_Witness ==
    /\ repeated
    /\ op = "validate_config"
    /\ Len(errors) > 0
    /\ Len(warnings) > 0

(***************************************************************************)
(* C4.  After a load that failed (no such file, or a document that does    *)
(* not decode) the error list holds exactly one error and validate_file    *)
(* returned False, on a fresh validator and on a used one alike.           *)
(***************************************************************************)
C4_SingleLoadError ==
    LoadFailed => (Len(errors) = 1 /\ result = "False")

Derived(i) == Replace(GetItem(Accounts[i], s_email_template).v, s_env_placeholder, s_test)

HasEnvTemplate(i) ==
    /\ i \in AccountsWith(s_email_template)
    /\ IsStr(GetItem(Accounts[i], s_email_template))
    /\ IsSubstr(s_env_placeholder, GetItem(Accounts[i], s_email_template).v)

HasLiteral(i, text) ==
    i \in AccountsWith(s_email) /\ GetItem(Accounts[i], s_email) = PyStr(text)

C6_DerivedEmailUnique ==
    (Validated /\ HasAccountList /\ OtherSectionsWellFormed) =>
        /\ \A i, j \in 1..Len(Accounts) :
              (i # j /\ HasEnvTemplate(i) /\ HasLiteral(j, Derived(i))) =>
                  <<"Duplicate account email/template: ", Derived(i)>> \in ToSet(errors)
        /\ \A k \in 1..Len(errors) :
              errors[k][1] = "Duplicate account email/template: " =>
                  \E i, j \in 1..Len(Accounts) :
                      /\ i # j
                      /\ HasLiteral(i, errors[k][2]) \/ (HasEnvTemplate(i) /\ Derived(i) = errors[k][2])
                      /\ HasLiteral(j, errors[k][2]) \/ (HasEnvTemplate(j) /\ Derived(j) = errors[k][2])

(***************************************************************************)
(* C7.  An account whose ou is not the name of a declared OU gets exactly  *)
(* one referential error, which carries the account's name and the OU's;   *)
(* an account whose ou is the name of a declared OU gets none.  Errors are *)
(* counted by their text, so accounts with the same name and ou share      *)
(* their count.  Stated for the documents whose metadata, environments and *)
(* organization are well formed, so that a violation is one of the         *)
(* accounts check.                                                         *)
(***************************************************************************)
ReferentialError(i) ==
    <<"Account '", Format(Get(Accounts[i], s_name, PyStr(s_unknown))),
      "' references unknown OU: ", Format(GetItem(Accounts[i], s_ou))>>

Dangling(i) == i \in AccountsWith(s_ou) /\ GetItem(Accounts[i], s_ou) \notin DeclaredOuNames

C7_ReferentialError ==
    (Validated /\ HasAccountList /\ OtherSectionsWellFormed) =>
        \A i \in AccountsWith(s_ou) :
            Count(errors, ReferentialError(i)) =
                Cardinality({j \in AccountsWith(s_ou) :
                                Dangling(j) /\ ReferentialError(j) = ReferentialError(i)})

(***************************************************************************)
(* C8.  A literal email that does not have the user@host.tld shape, the    *)
(* empty string included, is reported by an invalid-email-format error; a  *)
(* literal email that has the shape is not.  Stated for the runs that      *)
(* return, so that a violation is one of the format check.                 *)
(***************************************************************************)
C8_LiteralEmailShape ==
    (Validated /\ ~RunRaised /\ HasAccountList) =>
        \A i \in AccountsWith(s_email) :
            IsStr(GetItem(Accounts[i], s_email)) =>
                (~MatchEmail(GetItem(Accounts[i], s_email).v)
                    <=> <<"Invalid email format: ", GetItem(Accounts[i], s_email).v>>
                            \in ToSet(errors))

(***************************************************************************)
(* C9.  A fully well-formed document whose environments are dev and qa     *)
(* only: validate_config reports no error and the one warning that prod is *)
(* missing, and returns True; main exits 0 without --strict and 1 with it. *)
(***************************************************************************)
C9_DevQaOnly ==
    config \in WellFormedDevQa =>
        /\ op = "validate_config" =>
              /\ errors = <<>>
              /\ warnings = << <<"Missing recommended environment: ", s_prod>> >>
              /\ result = "True"
        /\ (op = "main" /\ file = "decoded") =>
              /\ errors = <<>>
              /\ Len(warnings) = 1
              /\ exit = IF strict THEN "1" ELSE "0"

\* the CLI has run in strict mode on such a document and exited 1
C9_Witness ==
    /\ config \in WellFormedDevQa
    /\ op = "main"
    /\ file = "decoded"
    /\ strict
    /\ exit = "1"
    /\ errors = <<>>

(***************************************************************************)
(* C10.  Whatever the order in which the eight section checks are run, the *)
(* run ends with the same set of errors and the same set of warnings as    *)
(* validate_config, which runs them in its fixed order.                    *)
(***************************************************************************)
C10_OrderIndependent ==
    op = "done" =>
        /\ ToSet(errors) = ToSet(validate_config(NewValidator, config).errors)
        /\ ToSet(warnings) = ToSet(validate_config(NewValidator, config).warnings)

====
